---- MODULE Spec2Model ----
(***************************************************************************)
(* Model of fireorm/models.py: BaseFirebaseModel, a pydantic record type   *)
(* persisted either to Firestore (live mode) or to the process-local       *)
(* cache_handler (test mode).                                              *)
(***************************************************************************)
EXTENDS Integers, Sequences, FiniteSets, TLC

\* ------------------------------------------------------------------ bounds
MaxInst == 2        \* in-memory record instances held by the caller
MaxOps == 5         \* calls made by the caller in one run
MaxDocs == 3        \* documents of the pre-filled cache used for get_page
MaxPage == 4        \* largest page number asked of get_page
MaxPageSize == 3    \* largest page_size asked of get_page

\* ------------------------------------------------------------ value sets
None == "None"                       \* Python None in an id slot
NoTime == 0                          \* Python None in a timestamp slot
IdPool == {"id1", "id2"}             \* document ids stores and callers use
Names == {"ann", "bob"}              \* values of the concrete field `name`
Tags == {"red"}                      \* members of the list field `tags`
TypeNames == {"User", "Item"}        \* concrete record types
FieldNames == {"id", "name", "tags", "created_at", "updated_at"}

VARIABLES
    test_mode,      \* config.test_mode, the ambient flag
    inst,           \* the caller's in-memory records
    cache,          \* cache_handler: collection -> sequence of [key, data]
    db,             \* Firestore: collection -> (document id -> field mapping)
    clock,          \* the live store's server time
    merge_default,  \* the shared default list object of merge(exclude_props=[])
    last,           \* the call that was made last, with its arguments
    nops,           \* number of calls made so far
    ret             \* the value the last get_page call returned

vars == <<test_mode, inst, cache, db, clock, merge_default, last, nops, ret>>

\* ------------------------------------------------------ record type facts
\* __collection_name__ of each concrete type ("" when not overridden)
ClassCollectionName(t) == IF t = "Item" THEN "inventory" ELSE ""

\* default of a pydantic field called collection_name ("" when the type
\* declares no such field; neither concrete type does)
FieldCollectionDefault(t) == ""

\* inflect's p.plural on the type names used here
Plural(t) == t \o "s"

\* cls._get_collection_name()
GetCollectionName(t) ==
    IF ClassCollectionName(t) # "" THEN ClassCollectionName(t) ELSE Plural(t)

\* the collection name save() recomputes in its live branch
SaveLiveCollectionName(t) ==
    IF FieldCollectionDefault(t) # "" THEN FieldCollectionDefault(t)
    ELSE Plural(t)

Collections ==
    {GetCollectionName(t) : t \in TypeNames} \cup
    {SaveLiveCollectionName(t) : t \in TypeNames}

\* test_mode argument resolved against config.test_mode
ResolveMode(arg) == IF arg = "None" THEN test_mode ELSE arg = "True"

\* the test_mode arguments tried: the argument is left out, so that all
\* calls of one run work on the store the ambient flag selects
ModeArgs == {"None"}

\* ------------------------------------------------------------- instances
\* an unused instance slot, also the "none" result of a fetch
NoInst ==
    [type |-> "none", id |-> None, name |-> "", tags |-> {},
     created_at |-> NoTime, updated_at |-> NoTime]

\* cls(id=None, name=..., tags=...): the field defaults of lines 30-33
NewRecord(t, n, tg) ==
    [type |-> t, id |-> None, name |-> n, tags |-> tg,
     created_at |-> NoTime, updated_at |-> NoTime]

\* self.dict()
Dict(r) == [k \in FieldNames |-> r[k]]

\* self.dict(exclude={"id", "created_at", "updated_at"})
DictExclude(r) == [k \in {"name", "tags"} |-> r[k]]

\* cls(**data): absent keys take the field defaults
FromData(t, data) ==
    [type |-> t,
     id |-> IF "id" \in DOMAIN data THEN data["id"] ELSE None,
     name |-> data["name"],
     tags |-> data["tags"],
     created_at |-> IF "created_at" \in DOMAIN data THEN data["created_at"] ELSE NoTime,
     updated_at |-> IF "updated_at" \in DOMAIN data THEN data["updated_at"] ELSE NoTime]

\* cls(id=doc.id, **data) after data.pop("id", None)
FromSnapshot(t, docid, data) == [FromData(t, data) EXCEPT !.id = docid]

\* ------------------------------------------------- cache_handler (test mode)
\* position of key k in collection c of the cache, 0 when absent
CacheIndex(ch, c, k) ==
    IF \E j \in 1..Len(ch[c]) : ch[c][j].key = k
    THEN CHOOSE j \in 1..Len(ch[c]) : ch[c][j].key = k
    ELSE 0

CacheHas(ch, c, k) == CacheIndex(ch, c, k) # 0

\* cache_handler.get_document(collection_name, doc_id)
GetDocument(ch, c, k) == ch[c][CacheIndex(ch, c, k)].data

\* cache_handler.add_document(collection_name, document_id, data)
AddDocument(ch, c, k, data) ==
    IF CacheHas(ch, c, k)
    THEN [ch EXCEPT ![c][CacheIndex(ch, c, k)].data = data]
    ELSE [ch EXCEPT ![c] = Append(@, [key |-> k, data |-> data])]

\* cache_handler.update_document(collection_name, document_id, data)
UpdateDocument(ch, c, k, data) ==
    IF CacheHas(ch, c, k)
    THEN [ch EXCEPT ![c][CacheIndex(ch, c, k)].data = data]
    ELSE ch

\* cache_handler.delete_document(collection_name, document_id)
DeleteDocument(ch, c, k) ==
    [ch EXCEPT ![c] = SelectSeq(@, LAMBDA e : e.key # k)]

\* cache_handler.list_collection(collection_name)
ListCollection(ch, c) == [j \in 1..Len(ch[c]) |-> ch[c][j].data]

\* the query_params argument: none, field == scalar, or field in list
NoQuery == [kind |-> "none", vals |-> {}]
QueryChoices ==
    {NoQuery} \cup {[kind |-> "eq", vals |-> {n}] : n \in Names}
              \cup {[kind |-> "in", vals |-> Names]}

\* one document against query_params (on the field `name`)
QueryMatch(data, qp) == qp.kind = "none" \/ data["name"] \in qp.vals

\* cache_handler.query_collection(collection_name, query_params)
QueryCollection(ch, c, qp) ==
    SelectSeq(ListCollection(ch, c), LAMBDA d : QueryMatch(d, qp))

\* ----------------------------------------------------- Firestore (live mode)
EmptyCollection == [k \in {} |-> [x \in {} |-> None]]

\* the order in which a Firestore collection streams its documents
IdOrder == <<"id1", "id2">>

\* doc_ref.get().exists
DocExists(store, c, k) == k \in DOMAIN store[c]

\* writes document k of collection c
PutDoc(store, c, k, data) ==
    [store EXCEPT ![c] =
        [j \in (DOMAIN @) \cup {k} |-> IF j = k THEN data ELSE @[j]]]

\* db.collection(c).add(data), the store having picked the id k
FsAdd(store, c, k, data) == PutDoc(store, c, k, data)

\* doc_ref.set(data, merge=True)
FsSetMerge(store, c, k, data) ==
    IF DocExists(store, c, k)
    THEN PutDoc(store, c, k,
            [f \in (DOMAIN store[c][k]) \cup (DOMAIN data) |->
                IF f \in DOMAIN data THEN data[f] ELSE store[c][k][f]])
    ELSE PutDoc(store, c, k, data)

\* doc_ref.delete()
FsDelete(store, c, k) ==
    [store EXCEPT ![c] = [j \in (DOMAIN @) \ {k} |-> @[j]]]

\* db.collection(c).stream(): the documents as (id, data) in store order
FsStream(store, c) ==
    LET ids == SelectSeq(IdOrder, LAMBDA k : DocExists(store, c, k))
    IN  [j \in 1..Len(ids) |-> [key |-> ids[j], data |-> store[c][ids[j]]]]

\* -------------------------------------------------------- read operations
\* cls.get_by_id(doc_id, test_mode) against the stores ch (cache_handler)
\* and store (db); NoInst stands for the result None
GetByIdIn(ch, store, t, docid, tm) ==
    LET c == GetCollectionName(t)
    IN  IF tm
        THEN IF CacheHas(ch, c, docid)
             THEN FromData(t, GetDocument(ch, c, docid))
             ELSE NoInst
        ELSE IF DocExists(store, c, docid)
             THEN FromSnapshot(t, docid, store[c][docid])
             ELSE NoInst

\* cls.get_by_id(doc_id, test_mode) in the current state
GetById(t, docid, tm) == GetByIdIn(cache, db, t, docid, tm)

\* cls.get_by_ids(doc_ids, test_mode), doc_ids a sequence of ids
GetByIds(t, docids, tm) ==
    LET c == GetCollectionName(t)
        found == SelectSeq(docids, LAMBDA k :
                    IF tm THEN CacheHas(cache, c, k) ELSE DocExists(db, c, k))
    IN  [j \in 1..Len(found) |-> GetById(t, found[j], tm)]

\* cls.get_all(test_mode)
GetAll(t, tm) ==
    LET c == GetCollectionName(t)
    IN  IF tm
        THEN LET docs == ListCollection(cache, c)
             IN  [j \in 1..Len(docs) |-> FromData(t, docs[j])]
        ELSE LET docs == FsStream(db, c)
             IN  [j \in 1..Len(docs) |-> FromSnapshot(t, docs[j].key, docs[j].data)]

\* the array_contains argument: none, or {"tags": value}
NoContains == [on |-> FALSE, val |-> ""]
ContainsChoices == {NoContains} \cup {[on |-> TRUE, val |-> v] : v \in Tags}

\* doc.get(key) and value in doc.get(key), for every item of array_contains
ContainsMatch(data, ac) ==
    ac.on => (data["tags"] # {} /\ ac.val \in data["tags"])

\* a window that starts one page late
PageStartLate(page, page_size) == page * page_size

\* start = (page - 1) * page_size
PageStart(page, page_size) == (page - 1) * page_size

\* seq[start:end] for 0 <= start <= end
Slice(seq, start, end) ==
    SubSeq(seq, start + 1, IF end < Len(seq) THEN end ELSE Len(seq))

\* cls.get_page(page, page_size, query_params, array_contains, test_mode)
GetPage(t, page, page_size, qp, ac, tm) ==
    LET c == GetCollectionName(t)
        start == PageStart(page, page_size)
        end == start + page_size
    IN  IF tm
        THEN LET all_docs == SelectSeq(QueryCollection(cache, c, qp),
                                       LAMBDA d : ContainsMatch(d, ac))
                 window == Slice(all_docs, start, end)
             IN  [j \in 1..Len(window) |-> FromData(t, window[j])]
        ELSE LET docs == SelectSeq(FsStream(db, c), LAMBDA e :
                            QueryMatch(e.data, qp) /\ ContainsMatch(e.data, ac))
                 window == Slice(docs, start, end)
             IN  [j \in 1..Len(window) |->
                    FromSnapshot(t, window[j].key, window[j].data)]

\* ------------------------------------------------------------ the calls
NoUpdate == [k \in {} |-> ""]

\* descriptor of a call: which operation, on which instance, with what;
\* pre is the instance as it was before the call and had tells whether
\* get_by_id found the instance's id before the call
Call(op, i, tm) ==
    [op |-> op, i |-> i, tm |-> tm, gen |-> FALSE, overwrite |-> FALSE,
     use_default |-> FALSE, excl |-> {}, upd |-> NoUpdate,
     typ |-> "none", docid |-> None,
     pre |-> IF i \in DOMAIN inst THEN inst[i] ELSE NoInst,
     had |-> i \in DOMAIN inst /\ inst[i].type # "none" /\
             GetById(inst[i].type, inst[i].id, tm) # NoInst,
     page |-> 0, page_size |-> 0, qp |-> NoQuery, ac |-> NoContains]

\* one more call, within the length of a run
Tick == nops < MaxOps /\ nops' = nops + 1

\* the slot the caller's next new variable takes: the first unused one
FreeSlot(i) ==
    /\ inst[i].type = "none"
    /\ \A j \in 1..(i - 1) : inst[j].type # "none"

\* r = cls(name=..., tags=...)
Construct(i, t, n, tg) ==
    /\ Tick
    /\ FreeSlot(i)
    /\ inst' = [inst EXCEPT ![i] = NewRecord(t, n, tg)]
    /\ last' = Call("construct", i, test_mode)
    /\ UNCHANGED <<test_mode, cache, db, clock, merge_default, ret>>

\* generate_fake_firebase_id(): any id, not checked against the store
FakeIds == IdPool

\* the ids db.collection(c).add may assign: unused in the collection and
\* unlike the id the record held
FreshIds(store, c, held) == IdPool \ ((DOMAIN store[c]) \cup {held})

\* the collection save() writes to in each mode
SaveCollection(t, tm) ==
    IF tm THEN GetCollectionName(t) ELSE SaveLiveCollectionName(t)

\* firestore.SERVER_TIMESTAMP as resolved by a write at server time `now`
ServerTimestamp(now) == now

\* the test-mode branch of save()
SaveTest(i, document_id) ==
    LET r == inst[i]
    IN  /\ cache' = AddDocument(cache, GetCollectionName(r.type),
                                document_id, Dict(r))
        /\ inst' = [inst EXCEPT ![i].id = document_id]
        /\ UNCHANGED <<db, clock>>

\* the insert path of the live branch of save(); new_id is the id the
\* store assigns
SaveLiveInsert(i, new_id) ==
    LET r == inst[i]
        c == SaveLiveCollectionName(r.type)
        ts == ServerTimestamp(clock + 1)
        data_to_save ==
            [k \in {"name", "tags", "created_at", "updated_at"} |->
                IF k \in {"created_at", "updated_at"} THEN ts
                ELSE DictExclude(r)[k]]
    IN  /\ db' = FsAdd(db, c, new_id, data_to_save)
        /\ inst' = [inst EXCEPT ![i].id = new_id]
        /\ clock' = clock + 1
        /\ UNCHANGED cache

\* the update path of the live branch of save()
SaveLiveUpdate(i) ==
    LET r == inst[i]
        c == SaveLiveCollectionName(r.type)
        ts == ServerTimestamp(clock + 1)
        data_to_save ==
            [k \in FieldNames |-> IF k = "updated_at" THEN ts ELSE Dict(r)[k]]
    IN  /\ db' = FsSetMerge(db, c, r.id, data_to_save)
        /\ clock' = clock + 1
        /\ UNCHANGED <<inst, cache>>

\* the condition of line 188: not self.id or generate_new_id
IsInsert(r, generate_new_id) == r.id = None \/ generate_new_id

\* self.save(generate_new_id, test_mode)
Save(i, generate_new_id, arg) ==
    LET r == inst[i]
        tm == ResolveMode(arg)
    IN  /\ Tick
        /\ r.type # "none"
        /\ IF tm
           THEN \E document_id \in (IF r.id # None THEN {r.id} ELSE FakeIds) :
                    SaveTest(i, document_id)
           ELSE IF IsInsert(r, generate_new_id)
                THEN \E new_id \in
                        FreshIds(db, SaveLiveCollectionName(r.type), r.id) :
                        SaveLiveInsert(i, new_id)
                ELSE SaveLiveUpdate(i)
        /\ last' = [Call("save", i, tm) EXCEPT !.gen = generate_new_id]
        /\ UNCHANGED <<test_mode, merge_default, ret>>

\* delete() with the branches of the mode test swapped
DeleteOtherStore(i, arg) ==
    LET r == inst[i]
        tm == ResolveMode(arg)
        c == GetCollectionName(r.type)
    IN  /\ Tick
        /\ r.type # "none"
        /\ IF ~tm
           THEN /\ cache' = DeleteDocument(cache, c, r.id)
                /\ UNCHANGED db
           ELSE /\ db' = FsDelete(db, c, r.id)
                /\ UNCHANGED cache
        /\ last' = Call("delete", i, tm)
        /\ UNCHANGED <<test_mode, inst, clock, merge_default, ret>>

\* self.delete(test_mode)
Delete(i, arg) ==
    LET r == inst[i]
        tm == ResolveMode(arg)
        c == GetCollectionName(r.type)
    IN  /\ Tick
        /\ r.type # "none"
        /\ IF tm
           THEN /\ cache' = DeleteDocument(cache, c, r.id)
                /\ UNCHANGED db
           ELSE /\ db' = FsDelete(db, c, r.id)
                /\ UNCHANGED cache
        /\ last' = Call("delete", i, tm)
        /\ UNCHANGED <<test_mode, inst, clock, merge_default, ret>>

\* the loop of lines 227-229 and 245-247: setattr for every key of
\* update_data that is not in exclude_props
ApplyUpdate(r, update_data, exclude_props) ==
    [k \in DOMAIN r |->
        IF k \in DOMAIN update_data /\ k \notin exclude_props
        THEN update_data[k] ELSE r[k]]

\* default_exclude of lines 237-239
DefaultExclude(overwrite_id) ==
    IF overwrite_id THEN {"created_at"} ELSE {"id", "created_at"}

\* self.merge(update_data, overwrite_id, exclude_props, test_mode); the
\* exclude_props list is the shared default object when use_default, else a
\* list the caller has just built (explicit)
Merge(i, update_data, overwrite_id, use_default, explicit, arg) ==
    LET r == inst[i]
        tm == ResolveMode(arg)
        exclude_props == IF use_default THEN merge_default ELSE explicit
        r1 == ApplyUpdate(r, update_data, exclude_props)
        extended == exclude_props \cup DefaultExclude(overwrite_id)
        r2 == ApplyUpdate(r1, update_data, extended)
    IN  /\ Tick
        /\ r.type # "none"
        /\ IF tm
           THEN /\ cache' = UpdateDocument(cache, GetCollectionName(r.type),
                                           r1.id, Dict(r1))
                /\ inst' = [inst EXCEPT ![i] = r1]
                /\ UNCHANGED merge_default
           ELSE /\ merge_default' =
                        IF use_default THEN extended ELSE merge_default
                /\ inst' = [inst EXCEPT ![i] = r2]
                /\ UNCHANGED cache
        /\ last' = [Call("merge", i, tm) EXCEPT
                        !.overwrite = overwrite_id, !.use_default = use_default,
                        !.excl = explicit, !.upd = update_data]
        /\ UNCHANGED <<test_mode, db, clock, ret>>

\* r = cls.get_by_id(doc_id, test_mode), kept by the caller when not None
Fetch(i, t, docid, arg) ==
    LET tm == ResolveMode(arg)
    IN  /\ Tick
        /\ FreeSlot(i)
        /\ GetById(t, docid, tm) # NoInst
        /\ inst' = [inst EXCEPT ![i] = GetById(t, docid, tm)]
        /\ last' = [Call("get_by_id", i, tm) EXCEPT !.typ = t, !.docid = docid]
        /\ UNCHANGED <<test_mode, cache, db, clock, merge_default, ret>>


\* the exclude_props arguments tried: left out (the default list), or a
\* fresh list [] or ["id"]
ExcludeChoices ==
    {[use_default |-> TRUE, explicit |-> {}],
     [use_default |-> FALSE, explicit |-> {}],
     [use_default |-> FALSE, explicit |-> {"id"}]}

\* the name and tags a caller constructs records with, and the names and
\* ids it merges in later
ConstructNames == {"ann"}
ConstructTags == {{"red"}}
MergeNames == {"bob"}
MergeIds == {"id2"}

\* the update_data mappings tried: {"id": x} for an id x, {"name": n}
UpdateChoices ==
    {[k \in {"id"} |-> x] : x \in MergeIds} \cup
    {[k \in {"name"} |-> n] : n \in MergeNames}

Instances == 1..MaxInst

Init ==
    /\ test_mode \in BOOLEAN
    /\ inst = [i \in Instances |-> NoInst]
    /\ cache = [c \in Collections |-> <<>>]
    /\ db = [c \in Collections |-> EmptyCollection]
    /\ clock = 0
    /\ merge_default = {}
    /\ last = Call("init", 0, test_mode)
    /\ nops = 0
    /\ ret = <<>>

Next ==
    \/ \E i \in Instances, t \in TypeNames, n \in ConstructNames,
          tg \in ConstructTags :
            Construct(i, t, n, tg)
    \/ \E i \in Instances, g \in BOOLEAN, arg \in ModeArgs : Save(i, g, arg)
    \/ \E i \in Instances, arg \in ModeArgs : Delete(i, arg)
    \/ \E i \in Instances, u \in UpdateChoices, o \in BOOLEAN,
          e \in ExcludeChoices, arg \in ModeArgs :
            Merge(i, u, o, e.use_default, e.explicit, arg)
    \/ \E i \in Instances, t \in TypeNames, docid \in IdPool, arg \in ModeArgs :
            Fetch(i, t, docid, arg)

Spec == Init /\ [][Next]_vars

\* ------------------------------------------------ get_page on a filled cache
\* key of the j-th document of the pre-filled cache
PageKey(j) == "doc" \o ToString(j)

\* the field mapping save() leaves in the cache for a record that has key k
PageDoc(k, n, tg) ==
    [f \in FieldNames |->
        CASE f = "id" -> k
          [] f = "name" -> n
          [] f = "tags" -> tg
          [] OTHER -> NoTime]

\* the contents a cache collection can have after up to MaxDocs saves
PageStores ==
    UNION {
        {[j \in 1..n |-> [key |-> PageKey(j),
                          data |-> PageDoc(PageKey(j), f[j][1], f[j][2])]] :
            f \in [1..n -> Names \X (SUBSET Tags)]} :
        n \in 0..MaxDocs}

InitPage ==
    /\ test_mode \in BOOLEAN
    /\ inst = [i \in Instances |-> NoInst]
    /\ \E store \in PageStores :
        cache = [c \in Collections |->
                    IF c = GetCollectionName("User") THEN store ELSE <<>>]
    /\ db = [c \in Collections |-> EmptyCollection]
    /\ clock = 0
    /\ merge_default = {}
    /\ last = Call("init", 0, test_mode)
    /\ nops = 0
    /\ ret = <<>>

\* ret = cls.get_page(page, page_size, query_params, array_contains, test_mode);
\* the call leaves both stores alone, so one call per run covers every call
GetPageCall(t, page, page_size, qp, ac, arg) ==
    LET tm == ResolveMode(arg)
    IN  /\ last.op = "init"
        /\ ret' = GetPage(t, page, page_size, qp, ac, tm)
        /\ last' = [Call("get_page", 0, tm) EXCEPT
                        !.typ = t, !.page = page, !.page_size = page_size,
                        !.qp = qp, !.ac = ac]
        /\ UNCHANGED <<test_mode, inst, cache, db, clock, merge_default, nops>>

NextPage ==
    \E t \in TypeNames, page \in 1..MaxPage, page_size \in 1..MaxPageSize,
       qp \in QueryChoices, ac \in ContainsChoices, arg \in ModeArgs :
        GetPageCall(t, page, page_size, qp, ac, arg)

SpecPage == InitPage /\ [][NextPage]_vars

\* ------------------------------------------------------------- properties
\* whether mode tm's store holds a document k in collection c
Stored(ch, store, tm, c, k) ==
    IF tm THEN CacheHas(ch, c, k) ELSE DocExists(store, c, k)

\* the field mapping mode tm's store holds for document k of collection c
StoredDoc(ch, store, tm, c, k) ==
    IF tm THEN GetDocument(ch, c, k) ELSE store[c][k]

\* C1: round trip. After save() of a record that had no id, get_by_id of the
\* assigned id (same type, same mode) returns a record with that id, with the
\* saved name and tags, and with created_at and updated_at both populated.
C1_RoundTrip ==
    (last.op = "save" /\ last.pre.id = None) =>
        LET r == inst[last.i]
            g == GetById(r.type, r.id, last.tm)
        IN  /\ g # NoInst
            /\ g.id = r.id
            /\ g.name = r.name
            /\ g.tags = r.tags
            /\ g.created_at # NoTime
            /\ g.updated_at # NoTime

\* C2: in live mode merge(update_data, overwrite_id=false) with "id" among
\* the keys of update_data leaves the in-memory record's id as it was.
C2_MergeKeepsId ==
    (last.op = "merge" /\ ~last.tm /\ ~last.overwrite
        /\ "id" \in DOMAIN last.upd) =>
        inst[last.i].id = last.pre.id

\* C3: in live mode merge({"id": x}, overwrite_id=true) whose exclude_props
\* argument does not hold "id" (or is left out) sets the record's id to x,
\* whatever merge calls were made before.
C3_MergeOverwritesId ==
    (last.op = "merge" /\ ~last.tm /\ last.overwrite
        /\ "id" \in DOMAIN last.upd
        /\ (last.use_default \/ "id" \notin last.excl)) =>
        inst[last.i].id = last.upd["id"]

\* the keys merge() is meant to skip in live mode
MergeExcluded(call) ==
    call.excl \cup {"created_at"} \cup (IF call.overwrite THEN {} ELSE {"id"})

\* C4: in live mode merge(update_data) on a persisted record persists the
\* merged state: get_by_id(record.id) then returns the post-merge value of
\* every non-excluded field of update_data (stated for update_data that
\* leaves the id alone, so that record.id names the same document).
C4_MergePersists ==
    (last.op = "merge" /\ ~last.tm /\ last.had
        /\ "id" \notin DOMAIN last.upd) =>
        LET r == inst[last.i]
            g == GetById(r.type, r.id, FALSE)
        IN  /\ g # NoInst
            /\ \A k \in (DOMAIN last.upd) \ MergeExcluded(last) : g[k] = r[k]

\* C5: created_at is write-once. When a save() has just inserted a document
\* and stamped its created_at, a save() on the update path or a merge() made
\* next on the same instance in the same mode leaves the stored created_at
\* as it was.
C5_CreatedAtWriteOnce ==
    [][ LET i == last.i
            tm == last.tm
            c == SaveCollection(inst[i].type, tm)
            k == inst[i].id
        IN  ( /\ last.op = "save"
              /\ (last.pre.id = None \/ last.gen)
              /\ last'.op \in {"save", "merge"}
              /\ last'.i = i
              /\ last'.tm = tm
              /\ ~last'.gen
              /\ Stored(cache, db, tm, c, k)
              /\ StoredDoc(cache, db, tm, c, k)["created_at"] # NoTime )
            => /\ Stored(cache', db', tm, c, k)
               /\ StoredDoc(cache', db', tm, c, k)["created_at"] =
                  StoredDoc(cache, db, tm, c, k)["created_at"]
      ]_vars

\* C6: in both modes save() inserts when the record has no id or
\* generate_new_id is true: the record gets an id it did not hold, a document
\* is stored under it and the document under the old id stays; otherwise
\* save() keeps the id and writes the document under it.
C6_SaveInsertOrUpdate ==
    [][ (last'.op = "save") =>
        LET i == last'.i
            tm == last'.tm
            old == inst[i]
            new == inst'[i]
            c == SaveCollection(old.type, tm)
        IN  IF old.id = None \/ last'.gen
            THEN /\ new.id # old.id
                 /\ new.id # None
                 /\ Stored(cache', db', tm, c, new.id)
                 /\ Stored(cache, db, tm, c, old.id) =>
                        /\ Stored(cache', db', tm, c, old.id)
                        /\ StoredDoc(cache', db', tm, c, old.id) =
                           StoredDoc(cache, db, tm, c, old.id)
            ELSE /\ new.id = old.id
                 /\ Stored(cache', db', tm, c, old.id)
      ]_vars

FilterHolds(data, qp, ac) ==
    /\ (qp.kind = "eq" => \E n \in qp.vals : data["name"] = n)
    /\ (qp.kind = "in" => data["name"] \in qp.vals)
    /\ (ac.on => ac.val \in data["tags"])

\* the records of type t in the cache that match the filter, in store order
Matching(t, qp, ac) ==
    LET docs == SelectSeq(ListCollection(cache, GetCollectionName(t)),
                          LAMBDA d : FilterHolds(d, qp, ac))
    IN  [j \in 1..Len(docs) |-> FromData(t, docs[j])]

RECURSIVE PagesUpTo(_, _, _, _, _)
\* pages 1..k of the test-mode get_page, one after the other
PagesUpTo(t, k, page_size, qp, ac) ==
    IF k = 0 THEN <<>>
    ELSE PagesUpTo(t, k - 1, page_size, qp, ac) \o
         GetPage(t, k, page_size, qp, ac, TRUE)

\* C8: pagination consistency in test mode. For the page_size P >= 1 and
\* the filter of any get_page call, pages 1..ceil(N/P) of the cache as it
\* stands, put together, are exactly the N matching records, each once, and
\* every later page is empty.
C8_PaginationConsistency ==
    (last.op = "get_page" /\ last.tm) =>
        LET t == last.typ
            P == last.page_size
            qp == last.qp
            ac == last.ac
            expected == Matching(t, qp, ac)
            N == Len(expected)
            K == (N + P - 1) \div P
        IN  /\ PagesUpTo(t, K, P, qp, ac) = expected
            /\ \A k \in (K + 1)..(K + MaxPage) :
                    GetPage(t, k, P, qp, ac, TRUE) = <<>>
            /\ ret = GetPage(t, last.page, P, qp, ac, TRUE)

\* a second page was fetched in test mode under an array_contains filter
\* that leaves some document of the collection out
C8_Witness ==
    /\ last.op = "get_page"
    /\ last.tm
    /\ last.ac.on
    /\ last.page = 2
    /\ last.page_size = 1
    /\ Len(ret) = 1
    /\ Len(Matching(last.typ, last.qp, last.ac)) = 2
    /\ Len(cache[GetCollectionName(last.typ)]) = 3

\* C9: every save() and every merge() that writes a document to the active
\* store, in either mode, leaves it with a populated updated_at that is not
\* earlier than the one it held before.
C9_UpdatedAtRefreshed ==
    [][ (last'.op \in {"save", "merge"}) =>
        LET i == last'.i
            tm == last'.tm
            t == inst'[i].type
            k == inst'[i].id
            c == IF last'.op = "save" THEN SaveCollection(t, tm)
                 ELSE GetCollectionName(t)
            written == /\ Stored(cache', db', tm, c, k)
                       /\ (last'.op = "merge" => tm)
        IN  written =>
            /\ StoredDoc(cache', db', tm, c, k)["updated_at"] # NoTime
            /\ Stored(cache, db, tm, c, k) =>
                    StoredDoc(cache', db', tm, c, k)["updated_at"] >=
                    StoredDoc(cache, db, tm, c, k)["updated_at"]
      ]_vars

\* C10: one collection per type. In each mode the document save() has just
\* written is in the collection that get_by_id, get_by_ids, get_page and
\* get_all of the type read from and that delete removes from.
C10_OneCollection ==
    (last.op = "save") =>
        LET r == inst[last.i]
            tm == last.tm
        IN  /\ SaveCollection(r.type, tm) = GetCollectionName(r.type)
            /\ GetById(r.type, r.id, tm) # NoInst
            /\ Len(GetByIds(r.type, <<r.id>>, tm)) = 1
            /\ Len(GetAll(r.type, tm)) >= 1
            /\ Len(GetPage(r.type, 1, MaxPageSize, NoQuery, NoContains, tm)) >= 1

====
